---- MODULE Spec2Model ----
(***************************************************************************)
(* Model of app.py: the audio normalisation helpers, the temporary file    *)
(* staging, the transcription dispatcher with its two backends, and the    *)
(* four button handlers working on st.session_state.                       *)
(*                                                                         *)
(* Python values are modelled as follows.                                  *)
(*   - an Optional value is a sequence: None is <<>>, the value v is <<v>>; *)
(*   - a bytes buffer is a record [fmt, rate, ch, frames]: the container    *)
(*     it is encoded in, its frame rate, its channel count and its frames   *)
(*     (one tuple of samples per frame); b"" is the buffer of fmt "empty";  *)
(*   - a call that may raise yields a record with kind "return" or "raise". *)
(* pydub, speech_recognition, tempfile and os are libraries outside the    *)
(* repository: their calls are modelled by their documented behaviour, and  *)
(* what the environment decides (what a recogniser answers, whether a disk  *)
(* operation fails) is an input chosen with \E.                            *)
(***************************************************************************)
EXTENDS Integers, Sequences, FiniteSets, TLC

VARIABLES segments, last_transcript, pocketsphinx, disk, act, ui, ret, trace, staged, joined, fault

vars == <<segments, last_transcript, pocketsphinx, disk, act, ui, ret, trace, staged, joined, fault>>

\* ------------------------------------------------------------------ bounds
MaxSegments == 2
MaxList == 3
MaxStale == 1

\* --------------------------------------------------------- Python values
None == <<>>
Some(v) == <<v>>

Return(v) == [kind |-> "return", value |-> v, msg |-> ""]
Raise(m) == [kind |-> "raise", value |-> None, msg |-> m]

\* ------------------------------------------------------------ audio data
TargetRate == 16000
TargetChannels == 1

EmptyBytes == [fmt |-> "empty", rate |-> 0, ch |-> 0, frames |-> <<>>]

\* A mono 16 kHz recording, a stereo 32 kHz recording, a mono 8 kHz MP3 upload
\* and a buffer no decoder accepts.
WavA == [fmt |-> "wav", rate |-> 16000, ch |-> 1, frames |-> << <<3>>, <<5>> >>]
WavB == [fmt |-> "wav", rate |-> 32000, ch |-> 2,
         frames |-> << <<2, 4>>, <<6, 8>>, <<1, 3>>, <<7, 9>> >>]
Mp3C == [fmt |-> "mp3", rate |-> 8000, ch |-> 1, frames |-> << <<4>> >>]
Junk == [fmt |-> "junk", rate |-> 0, ch |-> 0, frames |-> <<>>]

\* What the capture widget can hand over (None when nothing was recorded) and
\* what the uploader can hand over (None when no file was chosen).
Recordings == {None, Some(EmptyBytes), Some(WavB), Some(Junk)}
Uploads == {None, Some(EmptyBytes), Some(Mp3C), Some(Junk)}

\* bool(b) of a bytes value
BytesTruthy(b) == b.fmt # "empty"

\* AudioSegment.set_frame_rate: the frames resampled to the new rate (held
\* samples: output frame k is the input frame at the same instant).
SetFrameRate(seg, r) ==
    IF seg.rate = r THEN seg
    ELSE LET n == (Len(seg.frames) * r) \div seg.rate
         IN  [seg EXCEPT !.rate = r,
                         !.frames = [k \in 1..n |-> seg.frames[(((k - 1) * seg.rate) \div r) + 1]]]

\* AudioSegment.set_channels: downmix to mono by averaging, upmix by copying.
SetChannels(seg, c) ==
    IF seg.ch = c THEN seg
    ELSE IF c = 1
         THEN [seg EXCEPT !.ch = 1,
                          !.frames = [k \in 1..Len(seg.frames) |->
                                         << (seg.frames[k][1] + seg.frames[k][2]) \div 2 >>]]
         ELSE [seg EXCEPT !.ch = 2,
                          !.frames = [k \in 1..Len(seg.frames) |->
                                         << seg.frames[k][1], seg.frames[k][1] >>]]

\* seg.set_frame_rate(16000).set_channels(1)
Canonical(seg) == SetChannels(SetFrameRate(seg, TargetRate), TargetChannels)

Max(a, b) == IF a >= b THEN a ELSE b

\* mixed + seg: AudioSegment.__add__ appends without crossfade, after bringing
\* both operands to the larger frame rate and channel count.
AddCrossfaded(mixed, seg) ==
    LET r == Max(mixed.rate, seg.rate)
        c == Max(mixed.ch, seg.ch)
        a == SetChannels(SetFrameRate(mixed, r), c)
        b == SetChannels(SetFrameRate(seg, r), c)
    IN  [a EXCEPT !.frames = SubSeq(a.frames, 1, Len(a.frames) - 1) \o b.frames]

AudioSegmentAdd(mixed, seg) ==
    LET r == Max(mixed.rate, seg.rate)
        c == Max(mixed.ch, seg.ch)
        a == SetChannels(SetFrameRate(mixed, r), c)
        b == SetChannels(SetFrameRate(seg, r), c)
    IN  [a EXCEPT !.frames = a.frames \o b.frames]

\* AudioSegment.from_file(io.BytesIO(b), format="wav"): only WAV data decodes.
FromFileWav(b) ==
    IF b.fmt = "wav" THEN Return([b EXCEPT !.fmt = "pcm"])
    ELSE Raise("CouldntDecodeError")

\* AudioSegment.from_file(io.BytesIO(b)): the container is detected and
\* decoded; the decoder's message for anything else may be empty.
FromFileAuto(b) ==
    IF b.fmt \in {"wav", "mp3"} THEN Return([b EXCEPT !.fmt = "pcm"])
    ELSE Raise("")

\* seg.export(out, format="wav"); out.getvalue()
ExportWav(seg) == [seg EXCEPT !.fmt = "wav"]

\* ------------------------------------------------------- concat_segments_wav
RECURSIVE ConcatLoop(_, _, _)
ConcatLoop(wav_bytes_list, i, mixed) ==
    IF i > Len(wav_bytes_list) THEN Return(ExportWav(mixed[1]))
    ELSE LET d == FromFileWav(wav_bytes_list[i])
         IN  IF d.kind = "raise" THEN Raise(d.msg)
             ELSE LET seg == Canonical(d.value)
                  IN  ConcatLoop(wav_bytes_list, i + 1,
                                 IF mixed = None THEN Some(seg)
                                 ELSE Some(AudioSegmentAdd(mixed[1], seg)))

ConcatSegmentsWav(wav_bytes_list) ==
    IF wav_bytes_list = <<>> THEN Return(EmptyBytes)
    ELSE ConcatLoop(wav_bytes_list, 1, None)

\* ---------------------------------------------------------- ensure_wav_bytes
\* The messages of the program are written here without their accents and
\* backquotes.
DecodeErrorMsg(detail) == "Impossible de lire/convertir le fichier audio: " \o detail

EnsureWavBytes(audio_bytes) ==
    LET d == FromFileAuto(audio_bytes)
    IN  IF d.kind = "raise" THEN Raise(DecodeErrorMsg(d.msg))
        ELSE Return(ExportWav(Canonical(d.value)))

\* ----------------------------------------------------- save_bytes_to_tmp_wav
\* tempfile picks a name no existing file has.
FreshPath(d) == CHOOSE p \in 1..(Cardinality(d) + 1) :
                    p \notin d /\ \A q \in 1..(Cardinality(d) + 1) : q \notin d => p <= q

\* io is what the disk does: "ok", "create_fails" (no file is made) or
\* "write_fails" (the file is made with delete=False, the write raises and the
\* file stays).
IoOutcomes == {"ok", "create_fails", "write_fails"}

SaveBytesToTmpWav(wav_bytes, io, d) ==
    LET p == FreshPath(d)
    IN  IF io = "ok" THEN [kind |-> "return", value |-> Some(p), msg |-> "", disk |-> d \cup {p}]
        ELSE IF io = "write_fails"
             THEN [kind |-> "raise", value |-> None, msg |-> "OSError", disk |-> d \cup {p}]
             ELSE [kind |-> "raise", value |-> None, msg |-> "OSError", disk |-> d]

\* ------------------------------------------------------------- the backends
Texts == {"", "bonjour"}
Details == {"", "timed out"}

\* What the Google recogniser can answer: a text, UnknownValueError,
\* RequestError(detail), or an exception of another type.
GoogleAnswers ==
    {[k |-> "text", v |-> t] : t \in Texts}
    \cup {[k |-> "UnknownValueError", v |-> ""]}
    \cup {[k |-> "RequestError", v |-> m] : m \in Details}
    \cup {[k |-> "OtherException", v |-> ""]}

\* What the offline engine can answer once imported: a text,
\* UnknownValueError, or any other exception(detail).
SphinxAnswers ==
    {[k |-> "text", v |-> t] : t \in Texts}
    \cup {[k |-> "UnknownValueError", v |-> ""]}
    \cup {[k |-> "Exception", v |-> m] : m \in Details}

Pair(text, err) == [text |-> text, err |-> err]

GoogleNotUnderstood == "Audio incomprehensible pour Google Speech."
GoogleApiError(e) == "Erreur API Google: " \o e
SphinxNotInstalled == "Pocketsphinx non installe. Fais pip install pocketsphinx."
SphinxNotUnderstood == "Audio incomprehensible pour Sphinx."
SphinxError(e) == "Erreur Pocketsphinx: " \o e
NoAudioMsg == "Aucun audio fourni."
UnknownBackendMsg(backend) == "Backend inconnu: " \o backend

Called(r, events) == [kind |-> r.kind, value |-> r.value, msg |-> r.msg, trace |-> events]

\* env.answer is what the recogniser answers, env.installed whether
\* pocketsphinx can be imported.
GoogleSwallowsUnknown(wav_path, language, env, d) ==
    IF wav_path \notin d
    THEN Called(Raise("FileNotFoundError"), <<"transcribe_with_google", "AudioFile">>)
    ELSE IF env.answer.k = "text"
         THEN Called(Return(Pair(Some(env.answer.v), None)),
                     <<"transcribe_with_google", "AudioFile", "recognize_google">>)
    ELSE IF env.answer.k = "UnknownValueError"
         THEN Called(Return(Pair(None, None)),
                     <<"transcribe_with_google", "AudioFile", "recognize_google">>)
    ELSE IF env.answer.k = "RequestError"
         THEN Called(Return(Pair(None, Some(GoogleApiError(env.answer.v)))),
                     <<"transcribe_with_google", "AudioFile", "recognize_google">>)
    ELSE Called(Raise(env.answer.k),
                <<"transcribe_with_google", "AudioFile", "recognize_google">>)

TranscribeWithGoogle(wav_path, language, env, d) ==
    IF wav_path \notin d
    THEN Called(Raise("FileNotFoundError"), <<"transcribe_with_google", "AudioFile">>)
    ELSE IF env.answer.k = "text"
         THEN Called(Return(Pair(Some(env.answer.v), None)),
                     <<"transcribe_with_google", "AudioFile", "recognize_google">>)
    ELSE IF env.answer.k = "UnknownValueError"
         THEN Called(Return(Pair(None, Some(GoogleNotUnderstood))),
                     <<"transcribe_with_google", "AudioFile", "recognize_google">>)
    ELSE IF env.answer.k = "RequestError"
         THEN Called(Return(Pair(None, Some(GoogleApiError(env.answer.v)))),
                     <<"transcribe_with_google", "AudioFile", "recognize_google">>)
    ELSE Called(Raise(env.answer.k),
                <<"transcribe_with_google", "AudioFile", "recognize_google">>)

SphinxImportsLate(wav_path, language, env, d) ==
    IF wav_path \notin d
    THEN Called(Return(Pair(None, Some(SphinxError("FileNotFoundError")))),
                <<"transcribe_with_sphinx", "AudioFile">>)
    ELSE IF ~env.installed
         THEN Called(Return(Pair(None, Some(SphinxNotInstalled))),
                     <<"transcribe_with_sphinx", "AudioFile", "import pocketsphinx">>)
    ELSE IF env.answer.k = "text"
         THEN Called(Return(Pair(Some(env.answer.v), None)),
                     <<"transcribe_with_sphinx", "AudioFile", "import pocketsphinx",
                       "recognize_sphinx">>)
    ELSE IF env.answer.k = "UnknownValueError"
         THEN Called(Return(Pair(None, Some(SphinxNotUnderstood))),
                     <<"transcribe_with_sphinx", "AudioFile", "import pocketsphinx",
                       "recognize_sphinx">>)
    ELSE Called(Return(Pair(None, Some(SphinxError(env.answer.v)))),
                <<"transcribe_with_sphinx", "AudioFile", "import pocketsphinx",
                  "recognize_sphinx">>)

TranscribeWithSphinx(wav_path, language, env, d) ==
    IF ~env.installed
    THEN Called(Return(Pair(None, Some(SphinxNotInstalled))),
                <<"transcribe_with_sphinx", "import pocketsphinx">>)
    ELSE IF wav_path \notin d
         THEN Called(Return(Pair(None, Some(SphinxError("FileNotFoundError")))),
                     <<"transcribe_with_sphinx", "import pocketsphinx", "AudioFile">>)
    ELSE IF env.answer.k = "text"
         THEN Called(Return(Pair(Some(env.answer.v), None)),
                     <<"transcribe_with_sphinx", "import pocketsphinx", "AudioFile",
                       "recognize_sphinx">>)
    ELSE IF env.answer.k = "UnknownValueError"
         THEN Called(Return(Pair(None, Some(SphinxNotUnderstood))),
                     <<"transcribe_with_sphinx", "import pocketsphinx", "AudioFile",
                       "recognize_sphinx">>)
    ELSE Called(Return(Pair(None, Some(SphinxError(env.answer.v)))),
                <<"transcribe_with_sphinx", "import pocketsphinx", "AudioFile",
                  "recognize_sphinx">>)

\* --------------------------------------------------- transcribe_audio_bytes
Google == "Google (online)"
Sphinx == "Sphinx (offline)"

\* The selectboxes offer the two backends and five languages, of which two are
\* tried here; a direct caller of the dispatcher can pass any string.
UiBackends == {Google, Sphinx}
AnyBackends == {Google, Sphinx, "Foo"}
Languages == {"fr-FR", "en-US"}

RmOutcomes == {"ok", "remove_fails"}

\* The finally block: os.remove(wav_path), its failure swallowed.
CleanupOnReturnOnly(b, wav_path, rm, d) ==
    IF b.kind = "raise" THEN [trace |-> <<>>, disk |-> d]
    ELSE IF rm = "ok" THEN [trace |-> <<"os.remove">>, disk |-> d \ {wav_path}]
    ELSE [trace |-> <<"os.remove", "except: pass">>, disk |-> d]

Cleanup(b, wav_path, rm, d) ==
    IF rm = "ok" THEN [trace |-> <<"os.remove">>, disk |-> d \ {wav_path}]
    ELSE [trace |-> <<"os.remove", "except: pass">>, disk |-> d]

\* The if / elif / else on the backend selector.
BranchFallsThrough(backend, wav_path, language, env, d) ==
    IF backend = Sphinx THEN TranscribeWithSphinx(wav_path, language, env, d)
    ELSE TranscribeWithGoogle(wav_path, language, env, d)

Branch(backend, wav_path, language, env, d) ==
    IF backend = Google THEN TranscribeWithGoogle(wav_path, language, env, d)
    ELSE IF backend = Sphinx THEN TranscribeWithSphinx(wav_path, language, env, d)
    ELSE Called(Return(Pair(None, Some(UnknownBackendMsg(backend)))), <<>>)

Outcome(kind, value, msg, events, d, path) ==
    [kind |-> kind, value |-> value, msg |-> msg, trace |-> events, disk |-> d,
     staged |-> path]

\* env = [io, answer, rm, installed]: what the disk does on staging, what the
\* recogniser answers, what the disk does on removal, whether pocketsphinx is
\* installed.
TranscribeStaged(wav_bytes, backend, language, env, d, before) ==
    LET s == SaveBytesToTmpWav(wav_bytes, env.io, d)
    IN  IF s.kind = "raise"
        THEN Outcome("raise", None, s.msg, before \o <<"save_bytes_to_tmp_wav">>, s.disk, None)
        ELSE LET wav_path == s.value[1]
                 b == Branch(backend, wav_path, language, env, s.disk)
                 f == Cleanup(b, wav_path, env.rm, s.disk)
             IN  Outcome(b.kind, b.value, b.msg,
                         before \o <<"save_bytes_to_tmp_wav">> \o b.trace \o f.trace,
                         f.disk, s.value)

TranscribeNoEmptyCheck(audio_bytes, backend, language, env, d) ==
    LET e == EnsureWavBytes(audio_bytes)
    IN  IF e.kind = "raise"
        THEN Outcome("return", Pair(None, Some(e.msg)), "", <<"ensure_wav_bytes">>, d, None)
        ELSE TranscribeStaged(e.value, backend, language, env, d, <<"ensure_wav_bytes">>)

TranscribeStagesFirst(audio_bytes, backend, language, env, d) ==
    IF ~BytesTruthy(audio_bytes)
    THEN Outcome("return", Pair(None, Some(NoAudioMsg)), "", <<>>, d, None)
    ELSE LET s == SaveBytesToTmpWav(audio_bytes, env.io, d)
             e == EnsureWavBytes(audio_bytes)
         IN  IF s.kind = "raise"
             THEN Outcome("raise", None, s.msg, <<"save_bytes_to_tmp_wav">>, s.disk, None)
             ELSE IF e.kind = "raise"
                  THEN Outcome("return", Pair(None, Some(e.msg)), "",
                               <<"save_bytes_to_tmp_wav", "ensure_wav_bytes", "os.remove">>,
                               s.disk \ {s.value[1]}, s.value)
                  ELSE LET b == Branch(backend, s.value[1], language, env, s.disk)
                           f == Cleanup(b, s.value[1], env.rm, s.disk)
                       IN  Outcome(b.kind, b.value, b.msg,
                                   <<"save_bytes_to_tmp_wav", "ensure_wav_bytes">>
                                       \o b.trace \o f.trace,
                                   f.disk, s.value)

TranscribeAudioBytes(audio_bytes, backend, language, env, d) ==
    IF ~BytesTruthy(audio_bytes)
    THEN Outcome("return", Pair(None, Some(NoAudioMsg)), "", <<>>, d, None)
    ELSE LET e == EnsureWavBytes(audio_bytes)
         IN  IF e.kind = "raise"
             THEN Outcome("return", Pair(None, Some(e.msg)), "", <<"ensure_wav_bytes">>, d, None)
             ELSE TranscribeStaged(e.value, backend, language, env, d, <<"ensure_wav_bytes">>)

\* The answers the selected backend can give (none is asked of an unknown one,
\* nor of an offline engine that is not installed).
Answers(backend, inst) ==
    IF backend = Google THEN GoogleAnswers
    ELSE IF backend = Sphinx /\ inst THEN SphinxAnswers
    ELSE {[k |-> "text", v |-> ""]}

\* The environments of one dispatch of audio_bytes: whether staging works and,
\* when it does, what the backend answers and whether the removal works. A
\* dispatch that returns before staging asks nothing of its environment. At
\* most MaxStale files are left behind.
Quiet(inst) ==
    [io |-> "ok", answer |-> [k |-> "text", v |-> ""], rm |-> "ok", installed |-> inst]

Envs(audio_bytes, backend, d, inst) ==
    IF ~BytesTruthy(audio_bytes) \/ EnsureWavBytes(audio_bytes).kind = "raise"
    THEN {Quiet(inst)}
    ELSE {[Quiet(inst) EXCEPT !.io = i] :
             i \in {x \in IoOutcomes \ {"ok"} : x # "write_fails" \/ Cardinality(d) < MaxStale}}
         \cup {[io |-> "ok", answer |-> a, rm |-> r, installed |-> inst] :
                 a \in Answers(backend, inst),
                 r \in {x \in RmOutcomes : x # "remove_fails" \/ Cardinality(d) < MaxStale}}

\* ------------------------------------------------------------ the handlers
\* bool(x) of an Optional str value, and text or "".
StrTruthy(o) == o # None /\ o[1] # ""
TextOrEmpty(text) == IF StrTruthy(text) THEN text[1] ELSE ""

Action(name, audio, list, backend, language) ==
    [name |-> name, audio |-> audio, list |-> list, backend |-> backend,
     language |-> language]

Ui(kind, msg) == [kind |-> kind, msg |-> msg]

NoCall == /\ ret' = None
          /\ trace' = <<>>
          /\ staged' = None
          /\ joined' = None
          /\ fault' = ""

\* st.session_state after construction: no segment, an empty transcript. The
\* optional pocketsphinx package is installed or not.
Init ==
    /\ segments = <<>>
    /\ last_transcript = ""
    /\ pocketsphinx \in BOOLEAN
    /\ disk = {}
    /\ act = Action("start", None, <<>>, "", "")
    /\ ui = Ui("info", "")
    /\ ret = None
    /\ trace = <<>>
    /\ staged = None
    /\ joined = None
    /\ fault = ""

\* " + Ajouter ce segment"
AddSegmentIfNotNone(wav_audio) ==
    /\ act' = Action("add", wav_audio, <<>>, "", "")
    /\ IF wav_audio # None
       THEN /\ Len(segments) < MaxSegments
            /\ segments' = Append(segments, wav_audio[1])
            /\ ui' = Ui("success", "Segment ajoute. Total: " \o ToString(Len(segments')))
       ELSE /\ segments' = segments
            /\ ui' = Ui("warning", "Rien a ajouter. Enregistre d abord un segment")
    /\ NoCall
    /\ UNCHANGED <<last_transcript, pocketsphinx, disk>>

AddSegment(wav_audio) ==
    /\ act' = Action("add", wav_audio, <<>>, "", "")
    /\ IF wav_audio # None /\ BytesTruthy(wav_audio[1])
       THEN /\ Len(segments) < MaxSegments
            /\ segments' = Append(segments, wav_audio[1])
            /\ ui' = Ui("success", "Segment ajoute. Total: " \o ToString(Len(segments')))
       ELSE /\ segments' = segments
            /\ ui' = Ui("warning", "Rien a ajouter. Enregistre d abord un segment")
    /\ NoCall
    /\ UNCHANGED <<last_transcript, pocketsphinx, disk>>

\* "Supprimer les segments"
ClearSegments ==
    /\ act' = Action("clear", None, <<>>, "", "")
    /\ segments' = <<>>
    /\ ui' = Ui("info", "Segments effaces")
    /\ NoCall
    /\ UNCHANGED <<last_transcript, pocketsphinx, disk>>

\* text, err = transcribe_audio_bytes(...); if err: ... else: ...
ShowAlways(r, done) ==
    /\ ret' = IF r.kind = "return" THEN Some(r.value) ELSE None
    /\ trace' = r.trace
    /\ staged' = r.staged
    /\ disk' = r.disk
    /\ fault' = IF r.kind = "raise" THEN r.msg ELSE ""
    /\ IF r.kind = "raise"
       THEN /\ ui' = Ui("fault", r.msg)
            /\ last_transcript' = last_transcript
       ELSE /\ ui' = IF StrTruthy(r.value.err) THEN Ui("error", r.value.err[1])
                     ELSE Ui("success", done)
            /\ last_transcript' = TextOrEmpty(r.value.text)

Show(r, done) ==
    /\ ret' = IF r.kind = "return" THEN Some(r.value) ELSE None
    /\ trace' = r.trace
    /\ staged' = r.staged
    /\ disk' = r.disk
    /\ fault' = IF r.kind = "raise" THEN r.msg ELSE ""
    /\ IF r.kind = "raise"
       THEN /\ ui' = Ui("fault", r.msg)
            /\ last_transcript' = last_transcript
       ELSE IF StrTruthy(r.value.err)
            THEN /\ ui' = Ui("error", r.value.err[1])
                 /\ last_transcript' = last_transcript
            ELSE /\ ui' = Ui("success", done)
                 /\ last_transcript' = TextOrEmpty(r.value.text)

\* "Concatener + Transcrire"
ConcatTranscribe(backend, language, env) ==
    /\ act' = Action("concat", None, segments, backend, language)
    /\ IF segments = <<>>
       THEN /\ ui' = Ui("warning", "Aucun segment. Enregistre au moins un segment.")
            /\ NoCall
            /\ UNCHANGED <<last_transcript, disk>>
       ELSE LET j == ConcatSegmentsWav(segments)
            IN  IF j.kind = "raise"
                THEN /\ ui' = Ui("fault", j.msg)
                     /\ fault' = j.msg
                     /\ ret' = None
                     /\ trace' = <<>>
                     /\ staged' = None
                     /\ joined' = None
                     /\ UNCHANGED <<last_transcript, disk>>
                ELSE /\ joined' = Some(j.value)
                     /\ Show(TranscribeAudioBytes(j.value, backend, language, env, disk),
                             "Transcription terminee (segments)")
    /\ UNCHANGED <<segments, pocketsphinx>>

\* "Transcrire le fichier uploade"
UploadTranscribe(up, backend, language, env) ==
    /\ act' = Action("upload", up, <<>>, backend, language)
    /\ joined' = None
    /\ IF up = None
       THEN /\ ui' = Ui("warning", "Ajoute un fichier d abord.")
            /\ ret' = None
            /\ trace' = <<>>
            /\ staged' = None
            /\ fault' = ""
            /\ UNCHANGED <<last_transcript, disk>>
       ELSE Show(TranscribeAudioBytes(up[1], backend, language, env, disk),
                 "Transcription terminee (upload).")
    /\ UNCHANGED <<segments, pocketsphinx>>

\* The environments of a click on "Concatener + Transcrire".
ConcatEnvs(backend) ==
    LET j == ConcatSegmentsWav(segments)
    IN  IF segments = <<>> \/ j.kind = "raise" THEN {Quiet(pocketsphinx)}
        ELSE Envs(j.value, backend, disk, pocketsphinx)

Next ==
    \/ \E wav_audio \in Recordings : AddSegment(wav_audio)
    \/ ClearSegments
    \/ \E backend \in UiBackends, language \in Languages :
          \E env \in ConcatEnvs(backend) : ConcatTranscribe(backend, language, env)
    \/ \E up \in Uploads, backend \in UiBackends, language \in Languages :
          \E env \in Envs(IF up = None THEN EmptyBytes ELSE up[1], backend, disk, pocketsphinx) :
             UploadTranscribe(up, backend, language, env)

Spec == Init /\ [][Next]_vars

\* ------------------------------------------- the functions called directly
Buffers == {EmptyBytes, WavA, WavB, Mp3C, Junk}
SegmentBuffers == {WavA, WavB, Mp3C}

RECURSIVE ListsUpTo(_, _)
ListsUpTo(S, n) ==
    IF n = 0 THEN {<<>>}
    ELSE LET shorter == ListsUpTo(S, n - 1)
         IN  shorter \cup {Append(l, b) : l \in {x \in shorter : Len(x) = n - 1}, b \in S}

CallTranscribeAudioBytes(audio_bytes, backend, language, env) ==
    LET r == TranscribeAudioBytes(audio_bytes, backend, language, env, disk)
    IN  /\ act' = Action("transcribe_audio_bytes", Some(audio_bytes), <<>>, backend, language)
        /\ ret' = IF r.kind = "return" THEN Some(r.value) ELSE None
        /\ trace' = r.trace
        /\ staged' = r.staged
        /\ disk' = r.disk
        /\ fault' = IF r.kind = "raise" THEN r.msg ELSE ""
        /\ joined' = None
        /\ UNCHANGED <<segments, last_transcript, pocketsphinx, ui>>

CallConcatSegmentsWav(wav_bytes_list) ==
    LET j == ConcatSegmentsWav(wav_bytes_list)
    IN  /\ act' = Action("concat_segments_wav", None, wav_bytes_list, "", "")
        /\ joined' = IF j.kind = "return" THEN Some(j.value) ELSE None
        /\ fault' = IF j.kind = "raise" THEN j.msg ELSE ""
        /\ ret' = None
        /\ trace' = <<>>
        /\ staged' = None
        /\ UNCHANGED <<segments, last_transcript, pocketsphinx, disk, ui>>

NextFn ==
    \/ \E audio_bytes \in Buffers, backend \in AnyBackends, language \in Languages :
          \E env \in Envs(audio_bytes, backend, disk, pocketsphinx) :
             CallTranscribeAudioBytes(audio_bytes, backend, language, env)
    \/ \E wav_bytes_list \in ListsUpTo(SegmentBuffers, MaxList) :
          CallConcatSegmentsWav(wav_bytes_list)

SpecFn == Init /\ [][NextFn]_vars

\* ------------------------------------------------------------- properties
Count(ev) == Cardinality({i \in DOMAIN trace : trace[i] = ev})
Has(ev) == Count(ev) > 0
First(ev) == CHOOSE i \in DOMAIN trace : trace[i] = ev /\ \A j \in 1..(i - 1) : trace[j] # ev

BackendEvents == {"transcribe_with_google", "AudioFile", "recognize_google",
                  "transcribe_with_sphinx", "import pocketsphinx", "recognize_sphinx"}

\* The last step was a direct call of transcribe_audio_bytes.
Dispatched == act.name = "transcribe_audio_bytes"
Decodable(b) == b.fmt \in {"wav", "mp3"}

\* C1 as stated: after a call of transcribe_audio_bytes that staged a temporary
\* file, the file no longer exists on disk, whatever the outcome of the call.
C1_FileGone == (Dispatched /\ staged # None) => staged[1] \notin disk

\* C1 amended: after a call that staged a temporary file, whatever its outcome,
\* os.remove has been called once on the file, as the last thing the call does,
\* and the file no longer exists on disk unless that removal itself failed, in
\* which case the failure is swallowed.
C1_RemovedUnlessRemovalFails ==
    (Dispatched /\ staged # None) =>
        /\ Count("os.remove") = 1
        /\ \A i \in DOMAIN trace :
              i > First("os.remove") => trace[i] = "except: pass"
        /\ (Has("except: pass") \/ staged[1] \notin disk)

\* An exception of the Google backend escaped the call and the staged file is gone.
C1_Witness ==
    /\ Dispatched
    /\ staged # None
    /\ fault = "OtherException"
    /\ staged[1] \notin disk
    /\ trace[Len(trace)] = "os.remove"

\* C2: a click on "Concatener + Transcrire" with segments, or on "Transcrire le
\* fichier uploade" with a file, ends in a success or in an error message; the
\* only exception that may escape is the I/O failure of the staging.
C2_OneTerminalOutcome ==
    ((act.name = "concat" /\ act.list # <<>>) \/ (act.name = "upload" /\ act.audio # None)) =>
        \/ ui.kind = "success" /\ fault = ""
        \/ ui.kind = "error" /\ ui.msg # "" /\ fault = ""
        \/ ui.kind = "fault" /\ fault = "OSError" /\ trace[Len(trace)] = "save_bytes_to_tmp_wav"

\* C3: every pair returned by transcribe_audio_bytes (which returns the pairs of
\* transcribe_with_google and transcribe_with_sphinx as they are) has exactly one
\* component: a text and no error, or no text and a non-empty error.
C3_ExactlyOne ==
    (Dispatched /\ ret # None) =>
        \/ ret[1].text # None /\ ret[1].err = None
        \/ ret[1].text = None /\ ret[1].err # None /\ ret[1].err[1] # ""

\* The Google backend reported a request error whose detail is empty.
C3_Witness ==
    /\ Dispatched
    /\ ret = Some(Pair(None, Some("Erreur API Google: ")))
    /\ Has("recognize_google")

\* C4: a dispatch of empty audio returns the no-audio error and no text, stages
\* nothing and calls no backend, whatever the selector and the language.
C4_EmptyAudio ==
    (Dispatched /\ ~BytesTruthy(act.audio[1])) =>
        /\ ret = Some(Pair(None, Some("Aucun audio fourni.")))
        /\ staged = None
        /\ trace = <<>>
        /\ fault = ""

C4_Witness ==
    /\ Dispatched
    /\ act.audio = Some(EmptyBytes)
    /\ act.backend = "Foo"
    /\ ret = Some(Pair(None, Some("Aucun audio fourni.")))
    /\ disk # {}

NotInstalledMsg == "Pocketsphinx non installe. Fais pip install pocketsphinx."

\* C5 as stated: every dispatch with the offline backend selected while
\* pocketsphinx is not installed returns the not-installed error without reading
\* the staged file or calling a recognition function, having staged the file
\* before the backend branch and deleted it afterwards.
C5_NotInstalled ==
    (Dispatched /\ act.backend = Sphinx /\ ~pocketsphinx) =>
        /\ ret = Some(Pair(None, Some(NotInstalledMsg)))
        /\ ~Has("AudioFile") /\ ~Has("recognize_sphinx") /\ ~Has("recognize_google")
        /\ staged # None
        /\ First("save_bytes_to_tmp_wav") < First("transcribe_with_sphinx")
        /\ staged[1] \notin disk

\* C5 amended: a dispatch of non-empty, decodable audio whose staging succeeds,
\* with the offline backend selected while pocketsphinx is not installed,
\* returns the not-installed error without reading the staged file or calling a
\* recognition function; the file was staged before the backend branch, and
\* after the branch os.remove is called on it, which deletes it unless the
\* removal itself fails. A dispatch of empty or undecodable audio returns the
\* no-audio or the decode error instead and stages nothing.
C5_NotInstalledOnceStaged ==
    (Dispatched /\ act.backend = Sphinx /\ ~pocketsphinx) =>
        /\ ~Has("AudioFile") /\ ~Has("recognize_sphinx") /\ ~Has("recognize_google")
        /\ staged # None =>
              /\ ret = Some(Pair(None, Some(NotInstalledMsg)))
              /\ First("save_bytes_to_tmp_wav") < First("transcribe_with_sphinx")
              /\ First("import pocketsphinx") < First("os.remove")
              /\ (Has("except: pass") \/ staged[1] \notin disk)
        /\ (BytesTruthy(act.audio[1]) /\ Decodable(act.audio[1]) /\ fault = "") =>
              staged # None
        /\ ~(BytesTruthy(act.audio[1]) /\ Decodable(act.audio[1])) =>
              /\ staged = None
              /\ ret # None
              /\ ret[1].err # Some(NotInstalledMsg)

C5_Witness ==
    /\ Dispatched
    /\ act.backend = Sphinx
    /\ ~pocketsphinx
    /\ staged # None
    /\ ret = Some(Pair(None, Some(NotInstalledMsg)))
    /\ trace = <<"ensure_wav_bytes", "save_bytes_to_tmp_wav", "transcribe_with_sphinx",
                 "import pocketsphinx", "os.remove">>
    /\ staged[1] \notin disk

\* C6: last_transcript changes only in a transcription click whose dispatch
\* returned no error, and then becomes the returned text; a click whose dispatch
\* returned an error, an add and a clear leave it as it was.
C6_TranscriptOnlyOnSuccess ==
    [][/\ (last_transcript' # last_transcript) =>
            /\ act'.name \in {"concat", "upload"}
            /\ ret' # None
            /\ ret'[1].err = None
            /\ ret'[1].text # None
            /\ last_transcript' = ret'[1].text[1]
       /\ (ret' # None /\ ret'[1].err # None) => last_transcript' = last_transcript
       /\ act'.name \in {"add", "clear"} => last_transcript' = last_transcript]_vars

\* An upload of an undecodable buffer was answered by the decode error and the
\* earlier transcript is still there.
C6_Witness ==
    /\ act.name = "upload"
    /\ act.audio = Some(Junk)
    /\ ret = Some(Pair(None, Some("Impossible de lire/convertir le fichier audio: ")))
    /\ ui.kind = "error"
    /\ last_transcript = "bonjour"

\* C7: an add of a non-empty buffer appends it to the segment list, an add of an
\* empty or absent buffer leaves the list as it is and shows a warning, a clear
\* empties the list, and every other action leaves the list as it is.
C7_SegmentList ==
    [][IF act'.name = "add"
       THEN IF act'.audio # None /\ BytesTruthy(act'.audio[1])
            THEN segments' = Append(segments, act'.audio[1]) /\ ui'.kind = "success"
            ELSE segments' = segments /\ ui'.kind = "warning"
       ELSE IF act'.name = "clear" THEN segments' = <<>>
       ELSE segments' = segments]_vars

\* An empty recording was refused with a warning while two segments are kept in
\* the order they were added.
C7_Witness ==
    /\ act.name = "add"
    /\ act.audio = Some(EmptyBytes)
    /\ ui.kind = "warning"
    /\ segments = <<Junk, WavB>>

\* C8: concat_segments_wav of decodable WAV segments is one mono 16 kHz WAV whose
\* frames are the normalised frames of the segments one after the other, nothing
\* in between: frame k of segment i sits at the position that the lengths of the
\* segments before it give, and the length is the sum of the lengths. The empty
\* list gives the empty buffer and no exception.
NormFrames(b) == Canonical(b).frames
RECURSIVE Offset(_, _)
Offset(l, i) == IF i <= 1 THEN 0 ELSE Offset(l, i - 1) + Len(NormFrames(l[i - 1]))

C8_Concatenation ==
    (act.name = "concat_segments_wav") =>
        /\ act.list = <<>> => joined = Some(EmptyBytes) /\ fault = ""
        /\ (act.list # <<>> /\ \A i \in DOMAIN act.list : act.list[i].fmt = "wav") =>
              /\ fault = ""
              /\ joined # None
              /\ joined[1].fmt = "wav"
              /\ joined[1].rate = 16000
              /\ joined[1].ch = 1
              /\ Len(joined[1].frames) = Offset(act.list, Len(act.list) + 1)
              /\ \A i \in DOMAIN act.list : \A k \in DOMAIN NormFrames(act.list[i]) :
                    joined[1].frames[Offset(act.list, i) + k] = NormFrames(act.list[i])[k]

C8_Witness ==
    /\ act.name = "concat_segments_wav"
    /\ act.list = <<WavB, WavA, WavB>>
    /\ joined # None
    /\ joined[1].frames = << <<3>>, <<2>>, <<3>>, <<5>>, <<3>>, <<2>> >>

\* C9 as stated: every dispatch of non-empty audio stages one temporary file,
\* before branching on the selector, whatever the content of the audio.
C9_StagesWhenNonEmpty ==
    (Dispatched /\ BytesTruthy(act.audio[1])) =>
        /\ Count("save_bytes_to_tmp_wav") = 1
        /\ \A i \in DOMAIN trace :
              trace[i] \in BackendEvents => First("save_bytes_to_tmp_wav") < i

\* C9 amended: every dispatch of non-empty audio that ensure_wav_bytes can decode
\* calls the staging function once, before branching on the selector, whatever
\* the selector and the language, and the file is staged unless the staging
\* itself fails with an I/O error; a dispatch of non-empty audio that cannot be
\* decoded returns the decode error without staging anything.
C9_StagesWhenDecodable ==
    (Dispatched /\ BytesTruthy(act.audio[1])) =>
        IF Decodable(act.audio[1])
        THEN /\ Count("save_bytes_to_tmp_wav") = 1
             /\ \A i \in DOMAIN trace :
                   trace[i] \in BackendEvents => First("save_bytes_to_tmp_wav") < i
             /\ (staged # None \/ fault = "OSError")
        ELSE /\ Count("save_bytes_to_tmp_wav") = 0
             /\ staged = None
             /\ ret # None
             /\ ret[1].text = None
             /\ ret[1].err # None

C9_Witness ==
    /\ Dispatched
    /\ act.audio = Some(Mp3C)
    /\ act.backend = "Foo"
    /\ act.language = "en-US"
    /\ staged # None
    /\ trace = <<"ensure_wav_bytes", "save_bytes_to_tmp_wav", "os.remove">>

\* C10 as stated: a dispatch calls at most one backend, at most once, the online
\* one only for "Google (online)", the offline one only for "Sphinx (offline)";
\* for any other selector X no backend is called and the result is the
\* unknown-backend error naming X.
C10_OneBackend ==
    Dispatched =>
        /\ Count("transcribe_with_google") + Count("transcribe_with_sphinx") <= 1
        /\ Count("recognize_google") <= 1 /\ Count("recognize_sphinx") <= 1
        /\ Has("transcribe_with_google") => act.backend = "Google (online)"
        /\ Has("transcribe_with_sphinx") => act.backend = "Sphinx (offline)"
        /\ act.backend \notin {"Google (online)", "Sphinx (offline)"} =>
              /\ \A i \in DOMAIN trace : trace[i] \notin BackendEvents
              /\ ret = Some(Pair(None, Some("Backend inconnu: " \o act.backend)))

\* C10 amended: the same, except that for another selector X the result is the
\* unknown-backend error naming X only when the audio is non-empty and decodable
\* and its staging succeeded; otherwise the result is the no-audio or the decode
\* error, or the I/O error of the staging escapes.
C10_OneBackendOnceStaged ==
    Dispatched =>
        /\ Count("transcribe_with_google") + Count("transcribe_with_sphinx") <= 1
        /\ Count("recognize_google") <= 1 /\ Count("recognize_sphinx") <= 1
        /\ Has("transcribe_with_google") => act.backend = "Google (online)"
        /\ Has("transcribe_with_sphinx") => act.backend = "Sphinx (offline)"
        /\ act.backend \notin {"Google (online)", "Sphinx (offline)"} =>
              /\ \A i \in DOMAIN trace : trace[i] \notin BackendEvents
              /\ staged # None =>
                    ret = Some(Pair(None, Some("Backend inconnu: " \o act.backend)))
              /\ (BytesTruthy(act.audio[1]) /\ Decodable(act.audio[1]) /\ fault = "") =>
                    staged # None
              /\ ~BytesTruthy(act.audio[1]) =>
                    ret = Some(Pair(None, Some("Aucun audio fourni.")))
              /\ (BytesTruthy(act.audio[1]) /\ ~Decodable(act.audio[1])) =>
                    (ret # None /\ ret[1].err # None /\ staged = None)
              /\ fault \in {"", "OSError"}

C10_Witness ==
    /\ Dispatched
    /\ act.backend = "Foo"
    /\ staged # None
    /\ ret = Some(Pair(None, Some("Backend inconnu: Foo")))

====
